---- MODULE Spec2Model ----
(***************************************************************************)
(* A model of src/index.js: the Express handlers that register vendors and *)
(* bank accounts.  Every handler is an async function; each await is one   *)
(* atomic step of the store it calls, followed by the handler's code up to *)
(* its next await.  The record store (two tables without any uniqueness    *)
(* constraint) and the blob store (bucket "photos") are shared by all the  *)
(* requests in flight.                                                     *)
(***************************************************************************)
EXTENDS Integers, Sequences, FiniteSets, TLC

\* Number of requests that arrive in one behaviour.
MaxReqs == 2

\* Handler tasks that may be in flight at the same time.
Tasks == {"t1", "t2"}

\* Values the requests draw their inputs from.
Users == {"u1", "u2"}
Keys == {"k1", "k2"}
Bytes == {"b1", "b2"}
Text == "txt"

\* JavaScript null / a column with no value, and a path that holds no object.
Null == "null"
NoBlob == "none"
None == "-"

Tables == {"vendors", "bank_accounts"}

\* The natural key the create handlers look up.
KeyField(tbl) == IF tbl = "vendors" THEN "phone" ELSE "account_number"

\* The file fields multer accepts, in the order the handlers upload them.
Slots(tbl) ==
  IF tbl = "vendors" THEN <<"personal_photo", "aadhar_photo", "cart_photo">>
                     ELSE <<"passbook_photo">>

SlotSet(tbl) == {Slots(tbl)[n] : n \in DOMAIN Slots(tbl)}

\* The fixed file name each handler passes to uploadToSupabase for a slot.
fileName(slot) ==
  CASE slot = "personal_photo" -> "personal.jpg"
    [] slot = "aadhar_photo" -> "aadhar.jpg"
    [] slot = "cart_photo" -> "cart.jpg"
    [] slot = "passbook_photo" -> "passbook.jpg"

\* The folder each handler passes to uploadToSupabase.
folder(tbl) == IF tbl = "vendors" THEN "vendor" ELSE "bank"

Fields(tbl) == {"user_id", KeyField(tbl)} \cup SlotSet(tbl)

\* const filePath = `${userId}/${folder}/${fileName}`
filePath(userId, fold, fname) == userId \o "/" \o fold \o "/" \o fname

\* supabase.storage.from("photos").getPublicUrl(filePath).data.publicUrl
publicUrl(path) == "public/photos/" \o path

Paths ==
  UNION {{filePath(u, folder(tbl), fileName(s)) : u \in Users, s \in SlotSet(tbl)} :
           tbl \in Tables}

\* The object literal {}.
EmptyObj == [f \in {} |-> Null]

\* { ...a, ...b }
Spread(a, b) ==
  [f \in DOMAIN a \cup DOMAIN b |-> IF f \in DOMAIN b THEN b[f] ELSE a[f]]

\* The row the table stores for an inserted object: columns the object does
\* not name are NULL.
ToRow(tbl, obj) ==
  [f \in Fields(tbl) |-> IF f \in DOMAIN obj THEN obj[f] ELSE Null]

\* The row after an UPDATE ... SET of the patch's columns.
ApplyPatch(row, patch) ==
  [f \in DOMAIN row |-> IF f \in DOMAIN patch THEN patch[f] ELSE row[f]]

\* .eq(col, val): the positions of the rows the filter selects.
Eq(tab, col, val) == {n \in DOMAIN tab : tab[n][col] = val}

\* The rows at the positions ns, in table order.
RECURSIVE Pick(_, _, _)
Pick(tab, ns, n) ==
  IF n > Len(tab) THEN << >>
  ELSE (IF n \in ns THEN <<tab[n]>> ELSE << >>) \o Pick(tab, ns, n + 1)

Select(tab, ns) == Pick(tab, ns, 1)

\* An insert into a table with a unique constraint on the natural key: a
\* row whose key is taken is not stored.
StoreInsertUnique(tab, tbl, obj) ==
  IF Eq(tab, KeyField(tbl), ToRow(tbl, obj)[KeyField(tbl)]) # {} THEN tab
  ELSE Append(tab, ToRow(tbl, obj))

\* .insert([obj]): the table after the insert.
StoreInsert(tab, tbl, obj) == Append(tab, ToRow(tbl, obj))

\* An update on a table that rejects a patch whose natural key is held by a
\* row of another user_id: the table is left as it is.
StoreUpdateChecked(tab, uid, patch) ==
  IF \E tbl \in Tables :
       /\ KeyField(tbl) \in DOMAIN patch
       /\ \E n \in DOMAIN tab :
            /\ KeyField(tbl) \in DOMAIN tab[n]
            /\ tab[n][KeyField(tbl)] = patch[KeyField(tbl)]
            /\ tab[n]["user_id"] # uid
    THEN tab
  ELSE [n \in DOMAIN tab |->
          IF n \in Eq(tab, "user_id", uid) THEN ApplyPatch(tab[n], patch)
          ELSE tab[n]]

\* .update(patch).eq("user_id", uid): the table after the update.
StoreUpdate(tab, uid, patch) ==
  [n \in DOMAIN tab |->
     IF n \in Eq(tab, "user_id", uid) THEN ApplyPatch(tab[n], patch) ELSE tab[n]]

\* The messages of the responses.
MsgDupPhone == "Phone number already exists for another vendor"
MsgDupAccount == "Account number already exists"
MsgStore == "store error"
MsgNotSingle == "JSON object requested, multiple (or no) rows returned"
MsgUpload == "upload error"
MsgTypeError == "Cannot read properties of undefined"

\* .maybeSingle() on the selected rows: an error when the query fails or when
\* more than one row is selected, else the row or null.
maybeSingle(tab, ns, fails) ==
  IF fails THEN [error |-> MsgStore, data |-> << >>]
  ELSE IF Cardinality(ns) > 1 THEN [error |-> MsgNotSingle, data |-> << >>]
  ELSE [error |-> Null, data |-> Select(tab, ns)]

\* A .single() that, like .maybeSingle(), accepts an empty selection.
singleAllowsNone(tab, ns, fails) == maybeSingle(tab, ns, fails)

\* .single() on the selected rows: an error unless exactly one row is selected.
single(tab, ns, fails) ==
  IF fails THEN [error |-> MsgStore, data |-> << >>]
  ELSE IF Cardinality(ns) # 1 THEN [error |-> MsgNotSingle, data |-> << >>]
  ELSE [error |-> Null, data |-> Select(tab, ns)]

VARIABLES
  rows,     \* rows[tbl]: the rows of table tbl, in insertion order
  blobs,    \* blobs[path]: the bytes bucket "photos" holds at path
  req,      \* req[t]: the request task t handles, and how far it got
  started,  \* requests that have arrived so far
  putBy,    \* putBy[path]: the task in flight that last uploaded to path
  snap      \* the stores as the first of two identical updates left them

vars == <<rows, blobs, req, started, putBy, snap>>


\* Where a request with these files goes after the slots before position n:
\* to the upload of the next slot it has a file for, or to the store write.
NextSlot(tbl, files, n) ==
  LET later == {m \in DOMAIN Slots(tbl) : m >= n /\ Slots(tbl)[m] \in DOMAIN files}
  IN IF later = {} THEN 0 ELSE CHOOSE m \in later : \A k \in later : m <= k

\* A text value a request body may carry for a photo field.
TextParts(tbl) == {EmptyObj, Slots(tbl)[1] :> Text}

\* req.body of the create requests: user_id and the natural key, and possibly
\* a text value for a photo field.
CreateBodies(tbl) ==
  {Spread(("user_id" :> u) @@ (KeyField(tbl) :> k), tp) :
     u \in Users, k \in Keys, tp \in TextParts(tbl)}

\* req.body of the update requests: nothing, or one field to change.
UpdateBodies(tbl) ==
  {"user_id" :> u : u \in Users} \cup {KeyField(tbl) :> k : k \in Keys}
    \cup TextParts(tbl)

\* The sets of slots a request brings a file for.
FileSets(tbl) == {{}, {Slots(tbl)[Len(Slots(tbl))]}, SlotSet(tbl)}

\* req.files / req.file as multer leaves them: a buffer for some of the slots.
FileMaps(tbl) == {[s \in S |-> b] : S \in FileSets(tbl), b \in Bytes}

\* A task that handles no request.
Idle ==
  [pc |-> "idle", op |-> None, tbl |-> None, user_id |-> None,
   multipart |-> FALSE, body |-> EmptyObj, files |-> EmptyObj,
   photoUrls |-> EmptyObj, slot |-> 0,
   res |-> [status |-> 0, error |-> Null, data |-> << >>],
   existing |-> None, matched |-> -1, threw |-> FALSE, putFailed |-> FALSE,
   nPuts |-> 0, nInserts |-> 0, nUpdates |-> 0, nRes |-> 0]

NoSnap == [taken |-> FALSE, rows |-> [tbl \in Tables |-> << >>],
           blobs |-> [p \in Paths |-> NoBlob]]

\* The stores outlive the process.  They start empty, or hold what an earlier
\* run left: for user u1, one row per table with key k1, created with a file
\* for every slot.
SeedUrls(tbl) ==
  [s \in SlotSet(tbl) |-> publicUrl(filePath("u1", folder(tbl), fileName(s)))]

SeedRow(tbl) ==
  ToRow(tbl, Spread(("user_id" :> "u1") @@ (KeyField(tbl) :> "k1"),
                    SeedUrls(tbl)))

SeedPaths ==
  UNION {{filePath("u1", folder(tbl), fileName(s)) : s \in SlotSet(tbl)} :
           tbl \in Tables}

Init ==
  /\ \E seeded \in BOOLEAN :
       /\ rows = [tbl \in Tables |-> IF seeded THEN <<SeedRow(tbl)>> ELSE << >>]
       /\ blobs = [p \in Paths |->
                     IF seeded /\ p \in SeedPaths THEN "b1" ELSE NoBlob]
  /\ req = [t \in Tasks |-> Idle]
  /\ started = 0
  /\ putBy = [p \in Paths |-> None]
  /\ snap = NoSnap

\* An error response without the return: the handler goes on to its next
\* response call.
SendErrorFallsThrough(r, status, msg) ==
  [r EXCEPT !.pc = "done", !.nRes = @ + 2,
            !.res = [status |-> status, error |-> msg, data |-> << >>]]

\* res.status(status).json({ error: msg })
SendError(r, status, msg) ==
  [r EXCEPT !.pc = "done", !.nRes = @ + 1,
            !.res = [status |-> status, error |-> msg, data |-> << >>]]

\* res.json(data): status 200; data holds the rows of the payload, none when
\* the payload is undefined.
SendJson(r, data) ==
  [r EXCEPT !.pc = "done", !.nRes = @ + 1,
            !.res = [status |-> 200, error |-> Null, data |-> data]]

\* A catch block that swallows the error and lets the handler write.
CatchSwallows(r, msg) == [r EXCEPT !.threw = TRUE, !.pc = "write"]

\* catch (err) { res.status(500).json({ error: err.message }) }
Catch(r, msg) == SendError([r EXCEPT !.threw = TRUE], 500, msg)

\* A handler that goes to its store write without uploading its files.
ToUploadsSkips(r) ==
  IF r.tbl = "vendors" /\ ~r.multipart THEN Catch(r, MsgTypeError)
  ELSE [r EXCEPT !.pc = "write"]

\* The handler's code after the uniqueness read (create) or from its start
\* (update), up to its next await: the first upload it has a file for, else the
\* store write.  req.files of a vendors request that is not multipart is
\* undefined, so reading req.files.personal_photo throws; req.file of a bank
\* request is then undefined, which is falsy.
ToUploads(r) ==
  IF r.tbl = "vendors" /\ ~r.multipart THEN Catch(r, MsgTypeError)
  ELSE [r EXCEPT !.pc = IF r.slot = 0 THEN "write" ELSE "upload"]

\* The request (op, tbl) with these inputs arrives at task t: the handler runs
\* up to its first await.
Receive(t, op, tbl, uid, mp, body, files) ==
  /\ req[t].pc = "idle"
  /\ started < MaxReqs
  /\ started' = started + 1
  /\ LET r == [Idle EXCEPT !.op = op, !.tbl = tbl, !.user_id = uid,
                           !.multipart = mp, !.body = body, !.files = files,
                           !.slot = NextSlot(tbl, files, 1)]
     IN req' = [req EXCEPT ![t] =
          CASE op = "create" -> [r EXCEPT !.pc = "check"]
            [] op = "update" -> ToUploads(r)
            [] OTHER -> [r EXCEPT !.pc = "query"]]
  /\ UNCHANGED <<rows, blobs, putBy>>

\* A request arrives at task t: Express routes it to the handler of (op, tbl)
\* and multer parses a multipart body into req.body and req.files (req.file);
\* a request that is not multipart gets no req.files.  user_id is
\* req.body.user_id of a create and req.params.user_id of an update or get.
Arrive(t, op, tbl) ==
  /\ req[t].pc = "idle"
  /\ started < MaxReqs
  /\ \E uid \in Users \cup {None}, mp \in BOOLEAN :
       \E body \in (CASE op = "create" -> CreateBodies(tbl)
                      [] op = "update" -> UpdateBodies(tbl)
                      [] OTHER -> {EmptyObj}),
          files \in (IF mp THEN FileMaps(tbl) ELSE {EmptyObj}) :
         /\ op \in {"get", "list"} => ~mp
         /\ op \in {"create", "update"} /\ tbl = "bank_accounts" => mp
         /\ op = "create" => uid = body["user_id"]
         /\ (op = "list") = (uid = None)
         /\ Receive(t, op, tbl, uid, mp, body, files)
  /\ UNCHANGED snap

\* A handler that answers a failed read as if it had found a row.
OnCheckErrorAsDuplicate(r, msg) ==
  SendError([r EXCEPT !.existing = "error"], 400,
            IF r.tbl = "vendors" THEN MsgDupPhone ELSE MsgDupAccount)

\* if (phoneError) return res.status(400).json({ error: phoneError.message })
OnCheckError(r, msg) == SendError([r EXCEPT !.existing = "error"], 400, msg)

\* A handler that reports nothing for an existing row and goes on.
OnExistingContinues(r) == ToUploads([r EXCEPT !.existing = "row"])

\* if (existingVendor) return res.status(400).json({ error: "... exists ..." })
OnExisting(r) ==
  SendError([r EXCEPT !.existing = "row"], 400,
            IF r.tbl = "vendors" THEN MsgDupPhone ELSE MsgDupAccount)

\* The uniqueness read of a create handler and the code after it.
CreateCheck(t, tbl) ==
  /\ req[t].pc = "check" /\ req[t].op = "create" /\ req[t].tbl = tbl
  /\ \E fails \in BOOLEAN :
       LET r == req[t]
           tab == rows[tbl]
           q == maybeSingle(tab, Eq(tab, KeyField(tbl), r.body[KeyField(tbl)]),
                            fails)
       IN req' = [req EXCEPT ![t] =
            IF q.error # Null THEN OnCheckError(r, q.error)
            ELSE IF q.data # << >> THEN OnExisting(r)
            ELSE ToUploads([r EXCEPT !.existing = "null"])]
  /\ UNCHANGED <<rows, blobs, started, putBy, snap>>

\* An upload helper that, when its put fails, deletes what the folder of the
\* user holds.
uploadFailureClears(bl, fileBuffer, fname, userId, fold, fails) ==
  IF fails
    THEN [p \in DOMAIN bl |->
            IF \E tbl \in Tables : \E s \in SlotSet(tbl) :
                 p = filePath(userId, fold, fileName(s))
              THEN NoBlob ELSE bl[p]]
  ELSE [bl EXCEPT ![filePath(userId, fold, fname)] = fileBuffer]

\* An upload helper whose put is no upsert and whose error is not looked at:
\* a path that holds an object keeps it.
uploadNoUpsert(bl, fileBuffer, fname, userId, fold, fails) ==
  IF fails \/ bl[filePath(userId, fold, fname)] # NoBlob THEN bl
  ELSE [bl EXCEPT ![filePath(userId, fold, fname)] = fileBuffer]

\* uploadToSupabase: the bucket after the upload (upsert: true) of fileBuffer
\* to the path of (userId, folder, fileName); a failed upload stores nothing
\* and makes the helper throw.
uploadToSupabase(bl, fileBuffer, fname, userId, fold, fails) ==
  IF fails THEN bl
  ELSE [bl EXCEPT ![filePath(userId, fold, fname)] = fileBuffer]

\* photoUrls.slot = <the URL uploadToSupabase returned>, and on to the next
\* file or to the store write.
Uploaded(r, s, url) ==
  LET n == NextSlot(r.tbl, r.files, r.slot + 1)
  IN [r EXCEPT !.photoUrls = Spread(@, s :> url), !.slot = n,
               !.pc = IF n = 0 THEN "write" ELSE "upload"]

\* An upload step that keeps its hands off a path a persisted row refers to:
\* the put of such a file is answered with the URL but stores nothing.
UploadSparesReferenced(t, op, tbl) ==
  /\ req[t].pc = "upload" /\ req[t].op = op /\ req[t].tbl = tbl
  /\ \E fails \in BOOLEAN :
       LET r == [req[t] EXCEPT !.nPuts = @ + 1]
           s == Slots(tbl)[r.slot]
           path == filePath(r.user_id, folder(tbl), fileName(s))
           referenced == \E n \in DOMAIN rows[tbl] :
                           rows[tbl][n][s] = publicUrl(path)
       IN /\ blobs' = IF referenced THEN blobs
                      ELSE uploadToSupabase(blobs, r.files[s], fileName(s),
                                            r.user_id, folder(tbl), fails)
          /\ putBy' = IF fails THEN putBy ELSE [putBy EXCEPT ![path] = t]
          /\ req' = [req EXCEPT ![t] =
               IF fails THEN Catch([r EXCEPT !.putFailed = TRUE], MsgUpload)
               ELSE Uploaded(r, s, publicUrl(path))]
  /\ UNCHANGED <<rows, started, snap>>

\* One awaited uploadToSupabase call of a create or update handler, for the
\* slot the handler is at, and the code after it: a throw ends in the catch
\* block, else the URL is kept and the handler goes on.
Upload(t, op, tbl) ==
  /\ req[t].pc = "upload" /\ req[t].op = op /\ req[t].tbl = tbl
  /\ \E fails \in BOOLEAN :
       LET r == [req[t] EXCEPT !.nPuts = @ + 1]
           s == Slots(tbl)[r.slot]
           path == filePath(r.user_id, folder(tbl), fileName(s))
       IN /\ blobs' = uploadToSupabase(blobs, r.files[s], fileName(s),
                                       r.user_id, folder(tbl), fails)
          /\ putBy' = IF fails THEN putBy ELSE [putBy EXCEPT ![path] = t]
          /\ req' = [req EXCEPT ![t] =
               IF fails THEN Catch([r EXCEPT !.putFailed = TRUE], MsgUpload)
               ELSE Uploaded(r, s, publicUrl(path))]
  /\ UNCHANGED <<rows, started, snap>>

\* let photoUrl = null; if (req.file) photoUrl = await uploadToSupabase(...)
photoUrl(r) ==
  IF "passbook_photo" \in DOMAIN r.photoUrls
    THEN r.photoUrls["passbook_photo"] ELSE Null

\* An inserted object in which the body's fields win over the uploaded URLs.
InsertObjBodyWins(r) == Spread(r.photoUrls, r.body)

\* The object a create handler inserts: { ...req.body, ...photoUrls } for a
\* vendor, { ...req.body, passbook_photo: photoUrl } for a bank account.
InsertObj(r) ==
  IF r.tbl = "vendors" THEN Spread(r.body, r.photoUrls)
  ELSE Spread(r.body, "passbook_photo" :> photoUrl(r))

\* A patch that names every photo field, null where no file came.
UpdatePatchNulls(r) ==
  Spread(r.body, [s \in SlotSet(r.tbl) |->
                    IF s \in DOMAIN r.photoUrls THEN r.photoUrls[s] ELSE Null])

\* The patch an update handler sends: { ...req.body, ...photoUrls } for a
\* vendor, { ...req.body, ...(photoUrl && { passbook_photo: photoUrl }) } for
\* a bank account.
UpdatePatch(r) ==
  IF r.tbl = "vendors" THEN Spread(r.body, r.photoUrls)
  ELSE Spread(r.body, IF photoUrl(r) # Null
                        THEN "passbook_photo" :> photoUrl(r) ELSE EmptyObj)

\* The first element of an array as the payload of res.json: data[0], which
\* is undefined for an empty array.
First(data) == IF data = << >> THEN << >> ELSE <<data[1]>>

\* A create handler whose failed insert has stored the row all the same.
CreateInsertFailWrites(t, tbl) ==
  /\ req[t].pc = "write" /\ req[t].op = "create" /\ req[t].tbl = tbl
  /\ \E fails \in BOOLEAN :
       LET r == [req[t] EXCEPT !.nInserts = @ + 1]
           tab == StoreInsert(rows[tbl], tbl, InsertObj(r))
           data == Select(tab, (DOMAIN tab) \ (DOMAIN rows[tbl]))
       IN /\ rows' = [rows EXCEPT ![tbl] = tab]
          /\ req' = [req EXCEPT ![t] =
               IF fails THEN SendError(r, 400, MsgStore)
               ELSE SendJson(r, First(data))]
  /\ UNCHANGED <<blobs, started, putBy, snap>>

\* The insert of a create handler and its response.
CreateInsert(t, tbl) ==
  /\ req[t].pc = "write" /\ req[t].op = "create" /\ req[t].tbl = tbl
  /\ \E fails \in BOOLEAN :
       LET r == [req[t] EXCEPT !.nInserts = @ + 1]
           tab == StoreInsert(rows[tbl], tbl, InsertObj(r))
           data == Select(tab, (DOMAIN tab) \ (DOMAIN rows[tbl]))
       IN IF fails
            THEN /\ rows' = rows
                 /\ req' = [req EXCEPT ![t] = SendError(r, 400, MsgStore)]
          ELSE /\ rows' = [rows EXCEPT ![tbl] = tab]
               /\ req' = [req EXCEPT ![t] = SendJson(r, First(data))]
  /\ UNCHANGED <<blobs, started, putBy, snap>>

\* An update handler that inserts its patch as a new row.
UpdateWriteInserts(t, tbl) ==
  /\ req[t].pc = "write" /\ req[t].op = "update" /\ req[t].tbl = tbl
  /\ LET r == [req[t] EXCEPT !.nUpdates = @ + 1]
         hit == Eq(rows[tbl], "user_id", r.user_id)
         tab == StoreInsert(rows[tbl], tbl, UpdatePatch(r))
     IN /\ rows' = [rows EXCEPT ![tbl] = tab]
        /\ req' = [req EXCEPT ![t] =
             SendJson([r EXCEPT !.matched = Cardinality(hit)],
                      <<tab[Len(tab)]>>)]
  /\ UNCHANGED <<blobs, started, putBy, snap>>

\* The store update of an update handler and its response.
UpdateWrite(t, tbl) ==
  /\ req[t].pc = "write" /\ req[t].op = "update" /\ req[t].tbl = tbl
  /\ \E fails \in BOOLEAN :
       LET r == [req[t] EXCEPT !.nUpdates = @ + 1]
           hit == Eq(rows[tbl], "user_id", r.user_id)
           tab == StoreUpdate(rows[tbl], r.user_id, UpdatePatch(r))
       IN IF fails
            THEN /\ rows' = rows
                 /\ req' = [req EXCEPT ![t] = SendError(r, 400, MsgStore)]
          ELSE /\ rows' = [rows EXCEPT ![tbl] = tab]
               /\ req' = [req EXCEPT ![t] =
                    SendJson([r EXCEPT !.matched = Cardinality(hit)],
                             First(Select(tab, hit)))]
  /\ UNCHANGED <<blobs, started, putBy, snap>>

\* The query of a get-by-user_id handler and its response.
GetById(t, tbl) ==
  /\ req[t].pc = "query" /\ req[t].op = "get" /\ req[t].tbl = tbl
  /\ \E fails \in BOOLEAN :
       LET hit == Eq(rows[tbl], "user_id", req[t].user_id)
           q == single(rows[tbl], hit, fails)
           r == IF fails THEN req[t]
                ELSE [req[t] EXCEPT !.matched = Cardinality(hit)]
       IN req' = [req EXCEPT ![t] =
            IF q.error # Null THEN SendError(r, 400, q.error)
            ELSE SendJson(r, q.data)]
  /\ UNCHANGED <<rows, blobs, started, putBy, snap>>

\* The query of a list handler and its response.
ListAll(t, tbl) ==
  /\ req[t].pc = "query" /\ req[t].op = "list" /\ req[t].tbl = tbl
  /\ \E fails \in BOOLEAN :
       req' = [req EXCEPT ![t] =
         IF fails THEN SendError(req[t], 400, MsgStore)
         ELSE SendJson(req[t], rows[tbl])]
  /\ UNCHANGED <<rows, blobs, started, putBy, snap>>

\* The response is out: the task's request-local state is dropped and the
\* task is free for the next request.
Finish(t) ==
  /\ req[t].pc = "done"
  /\ req' = [req EXCEPT ![t] = Idle]
  /\ putBy' = [p \in Paths |-> IF putBy[p] = t THEN None ELSE putBy[p]]
  /\ UNCHANGED <<rows, blobs, started, snap>>

\* The handlers, by route.
PostVendors(t) == Arrive(t, "create", "vendors")
PostVendors_Check(t) == CreateCheck(t, "vendors")
PostVendors_Upload(t) == Upload(t, "create", "vendors")
PostVendors_Insert(t) == CreateInsert(t, "vendors")
GetVendors(t) == Arrive(t, "list", "vendors")
GetVendors_Select(t) == ListAll(t, "vendors")
GetVendorsById(t) == Arrive(t, "get", "vendors")
GetVendorsById_Select(t) == GetById(t, "vendors")
PutVendors(t) == Arrive(t, "update", "vendors")
PutVendors_Upload(t) == Upload(t, "update", "vendors")
PutVendors_Update(t) == UpdateWrite(t, "vendors")
PostBankAccounts(t) == Arrive(t, "create", "bank_accounts")
PostBankAccounts_Check(t) == CreateCheck(t, "bank_accounts")
PostBankAccounts_Upload(t) == Upload(t, "create", "bank_accounts")
PostBankAccounts_Insert(t) == CreateInsert(t, "bank_accounts")
GetBankAccounts(t) == Arrive(t, "list", "bank_accounts")
GetBankAccounts_Select(t) == ListAll(t, "bank_accounts")
GetBankAccountsById(t) == Arrive(t, "get", "bank_accounts")
GetBankAccountsById_Select(t) == GetById(t, "bank_accounts")
PutBankAccounts(t) == Arrive(t, "update", "bank_accounts")
PutBankAccounts_Upload(t) == Upload(t, "update", "bank_accounts")
PutBankAccounts_Update(t) == UpdateWrite(t, "bank_accounts")

Next ==
  \E t \in Tasks :
    \/ PostVendors(t) \/ PostVendors_Check(t) \/ PostVendors_Upload(t)
    \/ PostVendors_Insert(t)
    \/ GetVendors(t) \/ GetVendors_Select(t)
    \/ GetVendorsById(t) \/ GetVendorsById_Select(t)
    \/ PutVendors(t) \/ PutVendors_Upload(t) \/ PutVendors_Update(t)
    \/ PostBankAccounts(t) \/ PostBankAccounts_Check(t)
    \/ PostBankAccounts_Upload(t) \/ PostBankAccounts_Insert(t)
    \/ GetBankAccounts(t) \/ GetBankAccounts_Select(t)
    \/ GetBankAccountsById(t) \/ GetBankAccountsById_Select(t)
    \/ PutBankAccounts(t) \/ PutBankAccounts_Upload(t)
    \/ PutBankAccounts_Update(t)
    \/ Finish(t)

\* Requests arrive and are handled concurrently, with no coordination.
Spec == Init /\ [][Next]_vars
\* The same update request arrives a second time, right after the first one
\* was answered; the stores the first one left are remembered.
Repeat(t) ==
  /\ ~snap.taken
  /\ \E o \in Tasks \ {t} :
       /\ req[o].pc = "done" /\ req[o].op = "update"
       /\ Receive(t, "update", req[o].tbl, req[o].user_id, req[o].multipart,
                  req[o].body, req[o].files)
  /\ snap' = [taken |-> TRUE, rows |-> rows, blobs |-> blobs]

\* One update request arrives.
FirstUpdate(t) ==
  /\ started = 0
  /\ \E tbl \in Tables : Arrive(t, "update", tbl)

IdemNext ==
  \E t \in Tasks :
    \/ FirstUpdate(t)
    \/ PutVendors_Upload(t) \/ PutVendors_Update(t)
    \/ PutBankAccounts_Upload(t) \/ PutBankAccounts_Update(t)
    \/ Repeat(t)

\* One update request, then the same request again, one after the other.
IdemSpec == Init /\ [][IdemNext]_vars

\* The steps of the handler of task t after the request has arrived: each is
\* the return of the collaborator call the handler awaits.
Handle(t) ==
  \/ PostVendors_Check(t) \/ PostVendors_Upload(t) \/ PostVendors_Insert(t)
  \/ GetVendors_Select(t) \/ GetVendorsById_Select(t)
  \/ PutVendors_Upload(t) \/ PutVendors_Update(t)
  \/ PostBankAccounts_Check(t) \/ PostBankAccounts_Upload(t)
  \/ PostBankAccounts_Insert(t)
  \/ GetBankAccounts_Select(t) \/ GetBankAccountsById_Select(t)
  \/ PutBankAccounts_Upload(t) \/ PutBankAccounts_Update(t)

\* One request at a time: the server handles a request to its response before
\* the next one arrives.
SoloNext ==
  \E t \in {"t1"} :
    \/ PostVendors(t) \/ GetVendors(t) \/ GetVendorsById(t) \/ PutVendors(t)
    \/ PostBankAccounts(t) \/ GetBankAccounts(t) \/ GetBankAccountsById(t)
    \/ PutBankAccounts(t)
    \/ Handle(t)
    \/ Finish(t)

\* Every collaborator call a handler awaits returns, with success or error,
\* and the event loop then resumes the handler.
SoloSpec == Init /\ [][SoloNext]_vars /\ WF_vars(Handle("t1"))

----------------------------------------------------------------------------
\* The request task t has answered.
Done(t) == req[t].pc = "done"

\* The path and the URL of slot s of the request r.
PathOf(r, s) == filePath(r.user_id, folder(r.tbl), fileName(s))
UrlOf(r, s) == publicUrl(PathOf(r, s))

\* C1: a create request whose uniqueness read finds a row with its natural key
\* ends with the duplicate-key error (400) and has issued no upload and no
\* insert.
C1_DuplicateRejected ==
  \A t \in Tasks :
    Done(t) /\ req[t].op = "create" /\ req[t].existing = "row" =>
      /\ req[t].res.status = 400
      /\ req[t].res.error =
           (IF req[t].tbl = "vendors" THEN MsgDupPhone ELSE MsgDupAccount)
      /\ req[t].nPuts = 0 /\ req[t].nInserts = 0 /\ req[t].nUpdates = 0

C1_Witness ==
  \E t \in Tasks :
    /\ Done(t) /\ req[t].op = "create" /\ req[t].existing = "row"
    /\ req[t].files # EmptyObj /\ req[t].res.status = 400

\* C2: in every state no two rows of a table hold the same natural key.
C2_NaturalKeyUnique ==
  \A tbl \in Tables :
    \A m, n \in DOMAIN rows[tbl] :
      m # n => rows[tbl][m][KeyField(tbl)] # rows[tbl][n][KeyField(tbl)]

\* C3: a create request one of whose uploads failed has issued no insert and
\* ends with a server error (500).
C3_UploadFailureNoInsert ==
  \A t \in Tasks :
    Done(t) /\ req[t].op = "create" /\ req[t].putFailed =>
      req[t].nInserts = 0 /\ req[t].res.status = 500

C3_Witness ==
  \E t \in Tasks :
    /\ Done(t) /\ req[t].op = "create" /\ req[t].putFailed
    /\ req[t].nPuts = 2 /\ req[t].res.status = 500
\* The store update of the update request of task t succeeds in this step.
UpdateApplied(t) ==
  /\ req[t].pc = "write" /\ req[t].op = "update"
  /\ req'[t].pc = "done" /\ req'[t].res.status = 200

\* C4 as claimed: an update leaves, on every row, the field of every slot it
\* has no file for as it was, and sets the field of every slot it has a file
\* for, on the rows of its user_id, to the URL of the upload.
C4_NoFileKeepsField ==
  [][\A t \in Tasks :
       UpdateApplied(t) =>
         LET r == req[t]
             old == rows[r.tbl]
             new == rows'[r.tbl]
         IN \A n \in DOMAIN old, s \in SlotSet(r.tbl) :
              IF s \in DOMAIN r.files
                THEN n \in Eq(old, "user_id", r.user_id) =>
                       new[n][s] = UrlOf(r, s)
              ELSE new[n][s] = old[n][s]]_vars

\* C4 as amended: the field of a slot the update has no file for is left as it
\* was unless req.body itself carries a value for that field, which is then
\* what the rows of its user_id get; a slot with a file gets the URL.
C4_NoFileNoBodyKeepsField ==
  [][\A t \in Tasks :
       UpdateApplied(t) =>
         LET r == req[t]
             old == rows[r.tbl]
             new == rows'[r.tbl]
             hit == Eq(old, "user_id", r.user_id)
         IN \A n \in DOMAIN old, s \in SlotSet(r.tbl) :
              IF n \notin hit THEN new[n][s] = old[n][s]
              ELSE IF s \in DOMAIN r.files THEN new[n][s] = UrlOf(r, s)
              ELSE IF s \in DOMAIN r.body THEN new[n][s] = r.body[s]
              ELSE new[n][s] = old[n][s]]_vars

\* An update of a vendor that has all three photos, with a file for cart_photo
\* only: the other two fields are as before and cart_photo is the new URL.
C4_Witness ==
  \E t \in Tasks :
    /\ Done(t) /\ req[t].op = "update" /\ req[t].tbl = "vendors"
    /\ req[t].res.status = 200 /\ req[t].matched = 1
    /\ DOMAIN req[t].files = {"cart_photo"}
    /\ req[t].files["cart_photo"] = "b2"
    /\ req[t].res.data[1]["personal_photo"] = SeedUrls("vendors")["personal_photo"]
    /\ req[t].res.data[1]["aadhar_photo"] = SeedUrls("vendors")["aadhar_photo"]
    /\ req[t].res.data[1]["cart_photo"] = UrlOf(req[t], "cart_photo")
    /\ blobs[PathOf(req[t], "cart_photo")] = "b2"

\* C5: an update request whose user_id matches no row ends with an error,
\* never with a success response.
C5_UpdateMissingIsError ==
  \A t \in Tasks :
    Done(t) /\ req[t].op = "update" /\ req[t].matched = 0 =>
      req[t].res.status # 200

\* The insert of the create request of task t succeeds in this step.
InsertApplied(t) ==
  /\ req[t].pc = "write" /\ req[t].op = "create"
  /\ req'[t].pc = "done" /\ req'[t].res.status = 200

\* C6 as claimed: when the insert of a create request succeeds, the row it
\* stores and returns has, for every slot the request brought a file for, the
\* public URL of the slot's path, and the bucket holds that file's bytes at
\* the path.
C6_CreatedRowAndBlob ==
  [][\A t \in Tasks :
       InsertApplied(t) =>
         LET r == req'[t]
             tab == rows'[r.tbl]
         IN /\ r.res.data = <<tab[Len(tab)]>>
            /\ \A s \in DOMAIN r.files :
                 /\ r.res.data[1][s] = UrlOf(r, s)
                 /\ blobs'[PathOf(r, s)] = r.files[s]]_vars

\* C6 as amended: the bucket holds the file's bytes at the path unless an
\* upload of another request to the same path came after this request's.
C6_CreatedRowAndOwnBlob ==
  [][\A t \in Tasks :
       InsertApplied(t) =>
         LET r == req'[t]
             tab == rows'[r.tbl]
         IN /\ r.res.data = <<tab[Len(tab)]>>
            /\ \A s \in DOMAIN r.files :
                 /\ r.res.data[1][s] = UrlOf(r, s)
                 /\ putBy'[PathOf(r, s)] = t =>
                      blobs'[PathOf(r, s)] = r.files[s]]_vars

C6_Witness ==
  \E t \in Tasks :
    /\ Done(t) /\ req[t].op = "create" /\ req[t].res.status = 200
    /\ req[t].tbl = "bank_accounts" /\ req[t].existing = "null"
    /\ DOMAIN req[t].files = {"passbook_photo"}
    /\ req[t].res.data[1]["passbook_photo"] = UrlOf(req[t], "passbook_photo")
    /\ putBy[PathOf(req[t], "passbook_photo")] = t
    /\ blobs[PathOf(req[t], "passbook_photo")] = req[t].files["passbook_photo"]

\* Both of two identical updates, run one after the other, have succeeded.
BothUpdated == snap.taken /\ \A t \in Tasks : Done(t) /\ req[t].res.status = 200

\* The update request's body moves the rows of its user_id to another user_id.
MovesUserId(r) == "user_id" \in DOMAIN r.body /\ r.body["user_id"] # r.user_id

C8_ReadErrorDistinct ==
  \A t \in Tasks :
    Done(t) /\ req[t].op = "create" /\ req[t].existing = "error" =>
      /\ req[t].res.status >= 400
      /\ req[t].res.error \notin {MsgDupPhone, MsgDupAccount, Null}
      /\ req[t].nPuts = 0 /\ req[t].nInserts = 0 /\ req[t].nUpdates = 0

C8_Witness ==
  \E t \in Tasks :
    /\ Done(t) /\ req[t].op = "create" /\ req[t].existing = "error"
    /\ req[t].files # EmptyObj /\ req[t].res.error = MsgStore

\* C9: a get-by-user_id request whose user_id matches no row ends with an
\* error, never with a success response, and has written to neither store.
C9_GetMissingIsError ==
  \A t \in Tasks :
    Done(t) /\ req[t].op = "get" /\ req[t].matched = 0 =>
      /\ req[t].res.status = 400
      /\ req[t].res.error = MsgNotSingle
      /\ req[t].res.data = << >>
      /\ req[t].nPuts = 0 /\ req[t].nInserts = 0 /\ req[t].nUpdates = 0

C9_Witness ==
  \E t \in Tasks :
    /\ Done(t) /\ req[t].op = "get" /\ req[t].matched = 0
    /\ req[t].res.status = 400 /\ rows[req[t].tbl] # << >>

\* C10: the insert of a create request whose uniqueness read found no row
\* adds a row with the request's natural key whatever the table holds by
\* then, also when another create has inserted the same key in between.
C10_InsertAfterStaleRead ==
  [][\A t \in Tasks :
       InsertApplied(t) =>
         LET tbl == req[t].tbl
             f == KeyField(tbl)
             k == req[t].body[f]
         IN /\ req[t].existing = "null"
            /\ Len(rows'[tbl]) = Len(rows[tbl]) + 1
            /\ Cardinality(Eq(rows'[tbl], f, k)) =
                 Cardinality(Eq(rows[tbl], f, k)) + 1]_vars

\* Two concurrent creates with the same natural key have both read no row and
\* both inserted: the table holds two rows with the key.
C10_Witness ==
  \E tbl \in Tables, k \in Keys :
    /\ \A t \in Tasks :
         /\ Done(t) /\ req[t].op = "create" /\ req[t].tbl = tbl
         /\ req[t].body[KeyField(tbl)] = k /\ req[t].existing = "null"
         /\ req[t].res.status = 200
    /\ Cardinality(Eq(rows[tbl], KeyField(tbl), k)) = 2

\* The request of task t issues a blob put, its insert, its store update in
\* this step.
IssuesPut(t) == req'[t].nPuts = req[t].nPuts + 1
IssuesInsert(t) == req'[t].nInserts = req[t].nInserts + 1
IssuesUpdate(t) == req'[t].nUpdates = req[t].nUpdates + 1

\* Every file of the request r has been put, and every put has returned a URL.
AllPutsReturned(r) ==
  /\ ~r.putFailed /\ ~r.threw
  /\ DOMAIN r.photoUrls = DOMAIN r.files
  /\ r.nPuts = Cardinality(DOMAIN r.files)

\* C11: a create request issues a put only after its uniqueness read has
\* returned (with no row), and its insert only after every put has returned
\* successfully; an update request issues its store update only after every
\* put has returned successfully.
C11_StepsInOrder ==
  [][\A t \in Tasks :
       /\ IssuesPut(t) /\ req[t].op = "create" => req[t].existing = "null"
       /\ IssuesInsert(t) =>
            /\ req[t].op = "create" /\ req[t].existing = "null"
            /\ AllPutsReturned(req[t])
       /\ IssuesUpdate(t) =>
            req[t].op = "update" /\ AllPutsReturned(req[t])]_vars

\* A vendor create and a vendor update, each with three files, have both
\* written to the table after their three puts.
C11_Witness ==
  \E t, u \in Tasks :
    /\ Done(t) /\ req[t].op = "create" /\ req[t].tbl = "vendors"
    /\ req[t].nPuts = 3 /\ req[t].nInserts = 1 /\ req[t].res.status = 200
    /\ Done(u) /\ req[u].op = "update" /\ req[u].tbl = "vendors"
    /\ req[u].nPuts = 3 /\ req[u].nUpdates = 1 /\ req[u].res.status = 200

\* A put of the request of task t fails in this step.
FailsPut(t) == ~req[t].putFailed /\ req'[t].putFailed

\* The positions, up to n, of the slots the request r has a file for.
FileSlotsUpTo(r, n) ==
  {m \in DOMAIN Slots(r.tbl) : m <= n /\ Slots(r.tbl)[m] \in DOMAIN r.files}

\* C12: when a put of a vendor create or update fails, every earlier put of
\* the request has returned and its bytes are in the bucket (unless another
\* request has put to the path since), the failing step and the end of the
\* request remove nothing from the bucket, no put was or will be issued for a
\* later slot, and the request ends with the server error: no URL map reaches
\* an insert or update.
C12_PartialUploadsStay ==
  [][\A t \in Tasks :
       /\ FailsPut(t) /\ req[t].tbl = "vendors" =>
            LET r == req[t]
                k == r.slot
            IN /\ \A m \in FileSlotsUpTo(r, k - 1) :
                    LET s == Slots(r.tbl)[m]
                    IN /\ s \in DOMAIN r.photoUrls
                       /\ blobs'[PathOf(r, s)] # NoBlob
                       /\ putBy'[PathOf(r, s)] = t =>
                            blobs'[PathOf(r, s)] = r.files[s]
               /\ blobs' = blobs
               /\ req'[t].nPuts = Cardinality(FileSlotsUpTo(r, k))
               /\ Done(t)'
               /\ req'[t].res = [status |-> 500, error |-> MsgUpload,
                                 data |-> << >>]
               /\ req'[t].nInserts = 0 /\ req'[t].nUpdates = 0
       /\ Done(t) /\ req[t].putFailed /\ req'[t] # req[t] =>
            blobs' = blobs /\ rows' = rows /\ req'[t] = Idle]_vars

\* A vendor update for u2 with three files whose second put failed: the first
\* file is in the bucket, the other two paths hold nothing.
C12_Witness ==
  \E t \in Tasks :
    /\ Done(t) /\ req[t].op = "update" /\ req[t].tbl = "vendors"
    /\ req[t].user_id = "u2" /\ req[t].putFailed
    /\ DOMAIN req[t].files = SlotSet("vendors") /\ req[t].nPuts = 2
    /\ req[t].res.status = 500
    /\ blobs[PathOf(req[t], "personal_photo")] = req[t].files["personal_photo"]
    /\ blobs[PathOf(req[t], "aadhar_photo")] = NoBlob
    /\ blobs[PathOf(req[t], "cart_photo")] = NoBlob

\* The insert of the create request of task t fails in this step.
InsertFails(t) == IssuesInsert(t) /\ req'[t].res.status # 200

\* C13: when the insert of a create request fails, the request ends with the
\* store's error (400), the tables are as before the step, and every object
\* the request has put is still in the bucket: neither the failing step nor
\* the end of the request deletes anything.
C13_InsertFailureKeepsBlobs ==
  [][\A t \in Tasks :
       /\ InsertFails(t) =>
            LET r == req[t]
            IN /\ rows' = rows /\ blobs' = blobs
               /\ Done(t)'
               /\ req'[t].res = [status |-> 400, error |-> MsgStore,
                                 data |-> << >>]
               /\ req'[t].nPuts = Cardinality(DOMAIN r.files)
               /\ \A s \in DOMAIN r.files :
                    /\ blobs'[PathOf(r, s)] # NoBlob
                    /\ putBy'[PathOf(r, s)] = t =>
                         blobs'[PathOf(r, s)] = r.files[s]
       /\ Done(t) /\ req[t].nInserts = 1 /\ req[t].res.status # 200
            /\ req'[t] # req[t] =>
            blobs' = blobs /\ rows' = rows /\ req'[t] = Idle]_vars

\* A bank-account create for u2 whose put succeeded and whose insert failed:
\* the passbook is in the bucket and no row has its URL.
C13_Witness ==
  \E t \in Tasks :
    /\ Done(t) /\ req[t].op = "create" /\ req[t].tbl = "bank_accounts"
    /\ req[t].user_id = "u2" /\ req[t].nPuts = 1 /\ req[t].nInserts = 1
    /\ req[t].res.status = 400 /\ req[t].res.error = MsgStore
    /\ blobs[PathOf(req[t], "passbook_photo")] = req[t].files["passbook_photo"]
    /\ \A n \in DOMAIN rows["bank_accounts"] :
         rows["bank_accounts"][n]["passbook_photo"] #
           UrlOf(req[t], "passbook_photo")

\* C14: the row a create request inserts is req.body overlaid with the URLs of
\* the slots it has a file for, and with nothing else: the stored row has the
\* URL for a slot with a file, the body's value for a slot without a file that
\* the body names, and no value for a slot neither names.
C14_InsertedRowIsOverlay ==
  [][\A t \in Tasks :
       InsertApplied(t) =>
         LET r == req[t]
             tab == rows'[r.tbl]
         IN /\ DOMAIN r.photoUrls = DOMAIN r.files
            /\ tab[Len(tab)] = ToRow(r.tbl, Spread(r.body, r.photoUrls))]_vars

\* C15: an update request has made no uniqueness read, and when its store
\* update succeeds with a body that sets the natural key, every row of its
\* user_id has that key afterwards and the other rows are as before, also
\* when one of the other rows holds the same key.
C15_UpdateKeyUnchecked ==
  [][\A t \in Tasks :
       /\ req[t].op = "update" => req[t].existing = None
       /\ UpdateApplied(t) /\ KeyField(req[t].tbl) \in DOMAIN req[t].body =>
            LET r == req[t]
                f == KeyField(r.tbl)
                old == rows[r.tbl]
                new == rows'[r.tbl]
            IN /\ DOMAIN new = DOMAIN old
               /\ \A n \in DOMAIN old :
                    IF old[n]["user_id"] = r.user_id
                      THEN new[n][f] = r.body[f]
                    ELSE new[n] = old[n]]_vars

\* An update has set the key of the row of one user_id to the key the row of
\* another user_id holds, and was answered with the updated row.
C15_Witness ==
  \E t \in Tasks :
    /\ Done(t) /\ req[t].op = "update" /\ req[t].res.status = 200
    /\ req[t].matched = 1
    /\ LET f == KeyField(req[t].tbl)
           tab == rows[req[t].tbl]
       IN /\ f \in DOMAIN req[t].body
          /\ req[t].res.data[1][f] = req[t].body[f]
          /\ \E m, n \in DOMAIN tab :
               /\ tab[m]["user_id"] = req[t].user_id
               /\ tab[n]["user_id"] # req[t].user_id
               /\ tab[m][f] = req[t].body[f] /\ tab[n][f] = req[t].body[f]

\* The request of task t has arrived and has not been answered.
InFlight(t) == req[t].pc \in {"check", "upload", "write", "query"}

\* A request in flight has sent no response and an answered one exactly one;
\* a request has issued at most one put per file and at most one store write.
OneResponse(t) ==
  /\ InFlight(t) => req[t].nRes = 0
  /\ Done(t) => req[t].nRes = 1
  /\ req[t].nPuts <= Cardinality(DOMAIN req[t].files)
  /\ req[t].nInserts + req[t].nUpdates <= 1

\* A put of the request of task t is for a slot it has not put before, and
\* the request then moves on to a later slot, to its store write or to its
\* (error) response.
PutsOnce(t) ==
  IssuesPut(t) =>
    /\ Slots(req[t].tbl)[req[t].slot] \notin DOMAIN req[t].photoUrls
    /\ \/ Done(t)'
       \/ req'[t].pc = "write" /\ req'[t].slot = 0
       \/ req'[t].pc = "upload" /\ req'[t].slot > req[t].slot

\* C16: every request sends exactly one response on every path and, as every
\* collaborator call it awaits returns, it eventually responds; it puts each
\* slot at most once and issues at most one store write.
C16_ExactlyOneResponse ==
  /\ [](\A t \in Tasks : OneResponse(t))
  /\ [][\A t \in Tasks : PutsOnce(t)]_vars
  /\ \A t \in Tasks : InFlight(t) ~> Done(t)

\* The second request the server received, a vendor request with three files,
\* was answered once, with the server error, after its second put threw.
C16_Witness ==
  \E t \in Tasks :
    /\ started = 2 /\ Done(t) /\ req[t].tbl = "vendors"
    /\ req[t].putFailed /\ req[t].nPuts = 2 /\ req[t].threw
    /\ req[t].res.status = 500 /\ req[t].nRes = 1
    /\ req[t].nInserts = 0 /\ req[t].nUpdates = 0

\* C17: a successful store update gives the rows of its user_id the body's
\* fields and the URL of every slot it has a file for, and leaves the bucket
\* alone; the bytes behind such a URL are those of the request in flight that
\* put to the path last, which need not be the updating request.
C17_RowAndBlobApart ==
  [][\A t \in Tasks :
       UpdateApplied(t) =>
         LET r == req[t]
             old == rows[r.tbl]
             new == rows'[r.tbl]
         IN /\ blobs' = blobs
            /\ \A n \in Eq(old, "user_id", r.user_id) :
                 /\ \A f \in DOMAIN r.body \ DOMAIN r.files :
                      new[n][f] = r.body[f]
                 /\ \A s \in DOMAIN r.files : new[n][s] = UrlOf(r, s)
            /\ \A s \in DOMAIN r.files :
                 LET p == PathOf(r, s)
                 IN putBy[p] \in Tasks =>
                      /\ req[putBy[p]].user_id = r.user_id
                      /\ req[putBy[p]].tbl = r.tbl
                      /\ blobs'[p] = req[putBy[p]].files[s]]_vars

\* Two vendor updates for the same user_id, both with a cart_photo file, with
\* different bytes and different phone values: the row has the phone of the
\* one and the URL's path holds the bytes of the other.
C17_Witness ==
  \E a, b \in Tasks :
    /\ a # b
    /\ \A t \in {a, b} :
         /\ Done(t) /\ req[t].op = "update" /\ req[t].tbl = "vendors"
         /\ req[t].user_id = "u1" /\ req[t].res.status = 200
         /\ req[t].matched = 1 /\ "cart_photo" \in DOMAIN req[t].files
         /\ "phone" \in DOMAIN req[t].body
    /\ req[a].body["phone"] # req[b].body["phone"]
    /\ req[a].files["cart_photo"] # req[b].files["cart_photo"]
    /\ \E n \in DOMAIN rows["vendors"] :
         /\ rows["vendors"][n]["user_id"] = "u1"
         /\ rows["vendors"][n]["phone"] = req[a].body["phone"]
         /\ rows["vendors"][n]["cart_photo"] = UrlOf(req[a], "cart_photo")
    /\ blobs[PathOf(req[a], "cart_photo")] = req[b].files["cart_photo"]
    /\ putBy[PathOf(req[a], "cart_photo")] = b

\* A put of the create request of task t succeeds in this step.
CreatePuts(t) ==
  /\ IssuesPut(t) /\ req[t].op = "create" /\ ~req'[t].putFailed

\* C18: a successful put of a create request replaces the content of the
\* slot's path with the request's bytes before the insert is issued and
\* without a change to the tables, also when a persisted row refers to the
\* path; the insert, failed or not, leaves the bucket as the puts left it.
C18_CreateOverwritesBlob ==
  [][\A t \in Tasks :
       /\ CreatePuts(t) =>
            LET r == req[t]
                s == Slots(r.tbl)[r.slot]
            IN /\ r.existing = "null" /\ r.nInserts = 0
               /\ req'[t].nInserts = 0
               /\ rows' = rows
               /\ blobs' = [blobs EXCEPT ![PathOf(r, s)] = r.files[s]]
       /\ IssuesInsert(t) => blobs' = blobs]_vars

\* A create for u1 with a new key and a file has put other bytes to the path
\* the persisted row of u1 refers to, and its insert has failed: the tables
\* are as they were seeded and the content behind the row's URL has changed.
C18_Witness ==
  \E t \in Tasks :
    /\ Done(t) /\ req[t].op = "create" /\ req[t].tbl = "bank_accounts"
    /\ req[t].user_id = "u1" /\ req[t].body["account_number"] = "k2"
    /\ req[t].existing = "null" /\ req[t].nPuts = 1 /\ req[t].nInserts = 1
    /\ req[t].res.status = 400
    /\ rows = [tbl \in Tables |-> <<SeedRow(tbl)>>]
    /\ rows["bank_accounts"][1]["passbook_photo"] =
         UrlOf(req[t], "passbook_photo")
    /\ req[t].files["passbook_photo"] = "b2"
    /\ blobs[PathOf(req[t], "passbook_photo")] = "b2"
====
